---- MODULE Spec2Model ----
(***************************************************************************)
(* Inter-company invoice mirroring (account_invoice_inter_company,          *)
(* models/account_move.py).  Documents are account.move records; every     *)
(* public operation (action_post, button_draft, button_cancel, write) runs *)
(* in one database transaction: an exception raised anywhere inside it     *)
(* rolls every record change of the call back.                             *)
(*                                                                         *)
(* Amounts are integers in thousandths of the currency unit.  A document   *)
(* name of 0 stands for the placeholder "/" of a document that never got a *)
(* number; NoForce stands for Python's False.                              *)
(***************************************************************************)
EXTENDS Integers, Sequences, FiniteSets, TLC

\* ------------------------------------------------------------------ bounds
MaxId == 4          \* documents ever created (two sources, then mirrors)
MaxBatch == 2       \* documents in one recordset passed to an operation
MaxOps == 2         \* operations called after the sources were entered
MaxPending == 2     \* requests running at the same time

\* -------------------------------------------------------- fixed vocabulary
Sources == {1, 2}          \* the documents users enter; the rest are mirrors
NoForce == -1
supported_types == {"out_invoice", "in_invoice", "out_refund", "in_refund"}
AccountPrecision == 2      \* decimal.precision "Account"
AbortErrors == {"product_not_multicompany", "no_journal", "no_product"}

RECURSIVE Pow10(_)
Pow10(n) == IF n = 0 THEN 1 ELSE 10 * Pow10(n - 1)

Abs(x) == IF x < 0 THEN -x ELSE x

\* odoo.tools.float_round: to the nearest multiple of r, halves away from zero
float_round(v, r) ==
    LET q == (2 * Abs(v) + r) \div (2 * r)
    IN  IF v < 0 THEN -(q * r) ELSE q * r

\* odoo.tools.float_compare(value1, value2, precision_rounding=r)
float_compare_rounding(v1, v2, r) ==
    LET delta == float_round(v1, r) - float_round(v2, r)
    IN  IF Abs(float_round(delta, r)) < r THEN 0
        ELSE IF delta < 0 THEN -1 ELSE 1

\* odoo.tools.float_compare(value1, value2, precision_digits=p): the rounding
\* is 10^-p, which is 10^(3-p) thousandths
float_compare_digits(v1, v2, p) ==
    float_compare_rounding(v1, v2, Pow10(3 - p))

VARIABLES
    docs,       \* id -> account.move record, for the records that exist
    nextId,     \* next id the database hands out
    cfg,        \* res.company settings of the companies and the currency
    last,       \* the last operation called and how it ended
    ops,        \* number of operations called so far
    pending     \* the requests that have run and not yet committed

vars == <<docs, nextId, cfg, last, ops, pending>>

\* ---------------------------------------------------------------- records
\* res.partner -> res.company whose partner_id it is ("none": no such company)
\* the search of _find_company_from_invoice_partner
_find_company_from_invoice_partner(d, id) ==
    CASE d[id].partner_id = "pA" -> "A"
      [] d[id].partner_id = "pB" -> "B"
      [] OTHER -> "none"

\* res.company.partner_id
company_partner(c) == IF c = "A" THEN "pA" ELSE "pB"

\* self.search(domain), for a domain of ("field", "=", value) leaves: the ids
\* of the existing records that satisfy all of them
Search(d, domain) ==
    {i \in DOMAIN d : \A f \in DOMAIN domain : d[i][f] = domain[f]}

Max(S) == CHOOSE x \in S : \A y \in S : y <= x

\* a recordset as the ORM returns it (account.move is ordered ..., id desc)
RECURSIVE Recordset(_)
Recordset(S) == IF S = {} THEN <<>> ELSE <<Max(S)>> \o Recordset(S \ {Max(S)})

Range(s) == {s[k] : k \in 1..Len(s)}

\* vals applied to one record (models.Model.write of the base class)
Update(rec, vals) ==
    [f \in DOMAIN rec |-> IF f \in DOMAIN vals THEN vals[f] ELSE rec[f]]

\* the state and origin-note changes a write makes, in the order of the records
RECURSIVE WriteEvents(_, _, _)
WriteEvents(ids, vals, k) ==
    IF k > Len(ids) THEN <<>>
    ELSE (IF "state" \in DOMAIN vals
            THEN <<[id |-> ids[k], ev |-> vals.state]>> ELSE <<>>)
         \o (IF "invoice_origin" \in DOMAIN vals
            THEN <<[id |-> ids[k], ev |-> "origin"]>> ELSE <<>>)
         \o WriteEvents(ids, vals, k + 1)

\* An operation in progress: the records as the transaction sees them, the
\* exception raised so far ("ok": none) and the record its message names.
Begin(d, n) ==
    [docs |-> d, next |-> n, err |-> "ok", ref |-> 0,
     built |-> <<>>, trace |-> <<>>]

Raise(w, e, r) == [w EXCEPT !.err = e, !.ref = r]

\* ------------------------------------------------------------------ write
\* the first record of ids that is a mirror whose amount_untaxed differs from
\* its source's at the mirror currency's rounding; 0 when there is none
RECURSIVE FirstDiverging(_, _, _)
FirstDiverging(d, ids, k) ==
    IF k > Len(ids) THEN 0
    ELSE LET move == d[ids[k]]
         IN  IF /\ move.auto_invoice_id # 0
                /\ float_compare_rounding(move.amount_untaxed,
                       d[move.auto_invoice_id].amount_untaxed,
                       cfg.currency_rounding) # 0
             THEN ids[k]
             ELSE FirstDiverging(d, ids, k + 1)

write_unchecked(w, ids, vals, skip) ==
    IF w.err # "ok" THEN w
    ELSE [w EXCEPT
            !.docs = [i \in DOMAIN w.docs |->
                        IF i \in Range(ids) THEN Update(w.docs[i], vals)
                        ELSE w.docs[i]],
            !.trace = w.trace \o WriteEvents(ids, vals, 1)]

\* write without the amount guard
write_no_guard(w, ids, vals, skip) == write_unchecked(w, ids, vals, skip)

\* AccountMove.write: the base write, then the amount guard unless the
\* context carries skip_check_amount_difference
write(w, ids, vals, skip) ==
    IF w.err # "ok" THEN w
    ELSE LET w1 == write_unchecked(w, ids, vals, skip)
             bad == FirstDiverging(w1.docs, ids, 1)
         IN  IF skip \/ bad = 0 THEN w1
             ELSE Raise(w1, "amount_guard", w1.docs[bad].auto_invoice_id)

\* ------------------------------------------- the base class (account.move)
\* super().button_draft(): writes the state through self.write
super_button_draft(w, ids, skip) == write(w, ids, [state |-> "draft"], skip)

\* super().button_cancel(): writes the state through self.write
super_button_cancel(w, ids, skip) == write(w, ids, [state |-> "cancel"], skip)

\* the number a document is given when it is posted without one: the journal's
\* next sequence number, never given before
RECURSIVE AssignNames(_, _, _)
AssignNames(d, ids, k) ==
    IF k > Len(ids) THEN d
    ELSE AssignNames(
            IF d[ids[k]].name = 0
            THEN [d EXCEPT ![ids[k]].name = ids[k]] ELSE d,
            ids, k + 1)

\* super().action_post(): only a draft can be posted; the documents get their
\* numbers and the state is written through self.write
super_action_post(w, ids, skip) ==
    IF w.err # "ok" THEN w
    ELSE IF \E i \in Range(ids) : w.docs[i].state # "draft"
    THEN Raise(w, "not_draft",
               CHOOSE i \in Range(ids) : w.docs[i].state # "draft")
    ELSE write([w EXCEPT !.docs = AssignNames(w.docs, ids, 1)],
               ids, [state |-> "posted"], skip)

\* ----------------------------------------------------------- button_draft
\* the first move of ids that a posted mirror references, with that mirror
RECURSIVE FirstPostedMirror(_, _, _)
FirstPostedMirror(d, ids, k) ==
    IF k > Len(ids) THEN 0
    ELSE LET inter_invoice_posted ==
                 Search(d, [auto_invoice_id |-> ids[k], state |-> "posted"])
         IN  IF inter_invoice_posted # {}
             THEN Recordset(inter_invoice_posted)[1]
             ELSE FirstPostedMirror(d, ids, k + 1)

\* button_draft with the search made for the first record of self only
button_draft_first_only(w, ids, skip) ==
    IF w.err # "ok" THEN w
    ELSE LET m == FirstPostedMirror(w.docs, <<ids[1]>>, 1)
         IN  IF m # 0 THEN Raise(w, "reset_guard", m)
             ELSE super_button_draft(w, ids, skip)

button_draft(w, ids, skip) ==
    IF w.err # "ok" THEN w
    ELSE LET m == FirstPostedMirror(w.docs, ids, 1)
         IN  IF m # 0 THEN Raise(w, "reset_guard", m)
             ELSE super_button_draft(w, ids, skip)

\* ---------------------------------------------------------- button_cancel
CanceledOrigin(d, id) ==
    <<"Canceled Invoice", d[id].company_id, d[id].name>>

RECURSIVE button_cancel(_, _, _)
RECURSIVE CancelMirrors(_, _, _, _, _)
RECURSIVE CancelLoop(_, _, _, _)

\* CancelMirrors with the cascade's writes exempt from the amount guard
CancelMirrors_exempt(w, invoice, mirrors, k, skip) ==
    IF w.err # "ok" \/ k > Len(mirrors) THEN w
    ELSE LET inter_invoice == <<mirrors[k]>>
             w1 == button_draft(w, inter_invoice, TRUE)
             w2 == write(w1, inter_invoice,
                         [invoice_origin |-> CanceledOrigin(w.docs, invoice)],
                         TRUE)
             w3 == button_cancel(w2, inter_invoice, TRUE)
         IN  CancelMirrors(w3, invoice, mirrors, k + 1, skip)

\* the body of the inner loop, for the mirrors of one invoice
CancelMirrors(w, invoice, mirrors, k, skip) ==
    IF w.err # "ok" \/ k > Len(mirrors) THEN w
    ELSE LET inter_invoice == <<mirrors[k]>>
             w1 == button_draft(w, inter_invoice, skip)
             w2 == write(w1, inter_invoice,
                         [invoice_origin |-> CanceledOrigin(w.docs, invoice)],
                         skip)
             w3 == button_cancel(w2, inter_invoice, skip)
         IN  CancelMirrors(w3, invoice, mirrors, k + 1, skip)

\* the outer loop over self
CancelLoop(w, ids, k, skip) ==
    IF w.err # "ok" \/ k > Len(ids) THEN w
    ELSE LET invoice == ids[k]
             company == _find_company_from_invoice_partner(w.docs, invoice)
         IN  IF company # "none" /\ ~w.docs[invoice].auto_generated
             THEN CancelLoop(
                    CancelMirrors(w, invoice,
                        Recordset(Search(w.docs,
                            [auto_invoice_id |-> invoice])),
                        1, skip),
                    ids, k + 1, skip)
             ELSE CancelLoop(w, ids, k + 1, skip)

button_cancel(w, ids, skip) ==
    super_button_cancel(CancelLoop(w, ids, 1, skip), ids, skip)

\* ------------------------------------------------------------ type tables
\* _get_destination_invoice_type with in_refund mapped like in_invoice
_get_destination_invoice_type_no_refund(move_type) ==
    CASE move_type = "out_invoice" -> "in_invoice"
      [] move_type = "in_invoice" -> "out_invoice"
      [] move_type = "out_refund" -> "in_refund"
      [] move_type = "in_refund" -> "out_invoice"
      [] OTHER -> "none"

_get_destination_invoice_type(move_type) ==
    CASE move_type = "out_invoice" -> "in_invoice"
      [] move_type = "in_invoice" -> "out_invoice"
      [] move_type = "out_refund" -> "in_refund"
      [] move_type = "in_refund" -> "out_refund"
      [] OTHER -> "none"

_get_destination_journal_type(move_type) ==
    CASE move_type = "out_invoice" -> "purchase"
      [] move_type = "in_invoice" -> "sale"
      [] move_type = "out_refund" -> "purchase"
      [] move_type = "in_refund" -> "sale"
      [] OTHER -> "none"

\* ------------------------------------------------------ the mirror builder
\* product.template record rule under the destination company's user: product
\* "P" belongs to no company, product "Q" to the source's company only
ProductReadable(product_id, dest_company) == product_id # "Q"

\* _check_intercompany_product: the product of the first line (of all the
\* invoice lines) the destination company's user cannot read, "none" if none
RECURSIVE FirstUnreadable(_, _, _)
FirstUnreadable(lines, dest_company, k) ==
    IF k > Len(lines) THEN "none"
    ELSE IF ~ProductReadable(lines[k].product_id, dest_company)
         THEN lines[k].product_id
         ELSE FirstUnreadable(lines, dest_company, k + 1)

_check_intercompany_product(w, id, dest_company) ==
    IF w.err # "ok" THEN w
    ELSE IF cfg.company[dest_company].company_share_product THEN w
    ELSE IF FirstUnreadable(w.docs[id].lines, dest_company, 1) # "none"
         THEN Raise(w, "product_not_multicompany", id)
         ELSE w

\* inter_invoice.with_context(force_delete=True).unlink(): the records are
\* deleted and the auto_invoice_id that referred to one of them (a Many2one
\* without ondelete) is set to null
unlink(w, ids) ==
    IF w.err # "ok" THEN w
    ELSE [w EXCEPT !.docs =
            [i \in DOMAIN w.docs \ ids |->
                IF w.docs[i].auto_invoice_id \in ids
                THEN [w.docs[i] EXCEPT !.auto_invoice_id = 0]
                ELSE w.docs[i]]]

\* user_unlink with the deletion forced as the builder forces it
user_unlink_forced(w, ids) == unlink(w, ids)

\* unlink without force_delete, as a user calls it: the base class refuses to
\* delete a document that was posted once, which here is one that has a number
user_unlink(w, ids) ==
    IF w.err # "ok" THEN w
    ELSE IF \E i \in ids : w.docs[i].name # 0
    THEN Raise(w, "posted_once", CHOOSE i \in ids : w.docs[i].name # 0)
    ELSE unlink(w, ids)

InvoiceOrigin(d, id) == <<"Invoice", d[id].company_id, d[id].name>>

\* _prepare_invoice_data: the values of the new document, or the
\* configuration error when the destination company has no journal of the type
_prepare_invoice_data(d, id, dest_company) ==
    [move_type |-> _get_destination_invoice_type(d[id].move_type),
     company_id |-> dest_company,
     partner_id |-> company_partner(d[id].company_id),
     state |-> "draft",
     auto_generated |-> TRUE,
     auto_invoice_id |-> id,
     name |-> 0,
     ref |-> d[id].name,
     amount_untaxed |-> 0,
     amount_total |-> 0,
     invoice_origin |-> InvoiceOrigin(d, id),
     narration |-> d[id].narration,
     messages |-> <<>>,
     lines |-> <<>>]

HasJournal(id, d, dest_company) ==
    _get_destination_journal_type(d[id].move_type)
        \in cfg.company[dest_company].journals

\* MirrorLines with the lines without a product left out instead of refused
RECURSIVE MirrorLines_skipping(_, _)
MirrorLines_skipping(lines, k) ==
    IF k > Len(lines) THEN [vals |-> <<>>, missing |-> FALSE]
    ELSE IF lines[k].display_type \/ lines[k].product_id = "none"
         THEN MirrorLines_skipping(lines, k + 1)
    ELSE LET rest == MirrorLines_skipping(lines, k + 1)
         IN  [vals |-> <<[display_type |-> FALSE,
                          product_id |-> lines[k].product_id,
                          auto_invoice_line_id |-> k]>> \o rest.vals,
              missing |-> rest.missing]

\* the loop over the source's lines that are no section or note: the values of
\* the lines built before the first line without a product, and whether the
\* loop ended on such a line
RECURSIVE MirrorLines(_, _)
MirrorLines(lines, k) ==
    IF k > Len(lines) THEN [vals |-> <<>>, missing |-> FALSE]
    ELSE IF lines[k].display_type THEN MirrorLines(lines, k + 1)
    ELSE IF lines[k].product_id = "none"
         THEN [vals |-> <<>>, missing |-> TRUE]
    ELSE LET rest == MirrorLines(lines, k + 1)
         IN  [vals |-> <<[display_type |-> FALSE,
                          product_id |-> lines[k].product_id,
                          auto_invoice_line_id |-> k]>> \o rest.vals,
              missing |-> rest.missing]

\* The totals the destination company's ledger computes for the copied lines:
\* the source's, shifted by what the destination's taxes make of the same unit
\* prices (tax = <<untaxed shift, total shift>>), at the currency's rounding.
MirrorAmounts(src, tax) ==
    [amount_untaxed |->
        float_round(src.amount_untaxed + tax[1], cfg.currency_rounding),
     amount_total |->
        float_round(src.amount_total + tax[2], cfg.currency_rounding)]

TaxOf(taxes, id) == IF id \in DOMAIN taxes THEN taxes[id] ELSE <<0, 0>>

WarningBody(src, dest_invoice) ==
    [dest_amount_total |-> dest_invoice.amount_total,
     invoice_name |-> src.name,
     company_name |-> src.company_id,
     amount_total |-> src.amount_total]

\* ForceName with the reclaimed number dropped
ForceName_dropped(data, force_number) == data

\* if force_number: dest_invoice_data["name"] = force_number
ForceName(data, force_number) ==
    IF force_number # NoForce THEN [data EXCEPT !.name = force_number] ELSE data

RECURSIVE action_post(_, _, _, _)
RECURSIVE _inter_company_create_invoice(_, _, _, _, _)
RECURSIVE PostLoop(_, _, _, _)

\* Validate with the destination company's invoice_auto_validation ignored
Validate_ignores_setting(w, id, dest_company, dest_invoice, taxes) ==
    LET src == w.docs[id]
        differ == float_compare_digits(src.amount_total,
                      w.docs[dest_invoice].amount_total, AccountPrecision)
    IN  IF differ = 0
        THEN action_post(w, <<dest_invoice>>, TRUE, taxes)
        ELSE [w EXCEPT !.docs[dest_invoice].messages =
                 Append(@, WarningBody(src, w.docs[dest_invoice]))]

\* Validate with the warning posted whenever the mirror is left a draft
Validate_always_warns(w, id, dest_company, dest_invoice, taxes) ==
    LET src == w.docs[id]
        differ == float_compare_digits(src.amount_total,
                      w.docs[dest_invoice].amount_total, AccountPrecision)
    IN  IF cfg.company[dest_company].invoice_auto_validation /\ differ = 0
        THEN action_post(w, <<dest_invoice>>, TRUE, taxes)
        ELSE [w EXCEPT !.docs[dest_invoice].messages =
                 Append(@, WarningBody(src, w.docs[dest_invoice]))]

\* the reconciliation that ends _inter_company_create_invoice, on the created
\* mirror dest_invoice; the context carries skip_check_amount_difference
Validate(w, id, dest_company, dest_invoice, taxes) ==
    LET src == w.docs[id]
        differ == float_compare_digits(src.amount_total,
                      w.docs[dest_invoice].amount_total, AccountPrecision)
    IN  IF cfg.company[dest_company].invoice_auto_validation /\ differ = 0
        THEN action_post(w, <<dest_invoice>>, TRUE, taxes)
        ELSE IF differ # 0
        THEN [w EXCEPT !.docs[dest_invoice].messages =
                 Append(@, WarningBody(src, w.docs[dest_invoice]))]
        ELSE w

\* _inter_company_create_invoice, called on the source id with the environment
\* env that action_post chose
_inter_company_create_invoice(w, id, dest_company, env, taxes) ==
    LET w1 == _check_intercompany_product(w, id, dest_company)
        inter_invoice ==
            Search(w1.docs, [auto_invoice_id |-> id,
                             company_id |-> dest_company])
        \* inter_invoice.state is read on a recordset: exactly one record
        reclaim == /\ inter_invoice # {}
                   /\ \A m \in inter_invoice :
                         w1.docs[m].state \in {"draft", "cancel"}
        force_number ==
            IF reclaim THEN w1.docs[Max(inter_invoice)].name ELSE NoForce
        w2 == IF reclaim THEN unlink(w1, inter_invoice) ELSE w1
        data == _prepare_invoice_data(w2.docs, id, dest_company)
        dest_invoice_data == ForceName(data, force_number)
        dest_invoice == w2.next
        w3 == [w2 EXCEPT !.docs = (dest_invoice :> dest_invoice_data) @@ @,
                         !.next = @ + 1]
        built == MirrorLines(w3.docs[id].lines, 1)
        w4 == [w3 EXCEPT
                 !.docs[dest_invoice] =
                     Update([@ EXCEPT !.lines = built.vals],
                            MirrorAmounts(w3.docs[id], TaxOf(taxes, id)))]
        w5 == Validate(w4, id, dest_company, dest_invoice, taxes)
    IN  IF w1.err # "ok" THEN w1
        ELSE IF Cardinality(inter_invoice) > 1
        THEN Raise(w1, "expected_singleton", id)
        ELSE IF ~HasJournal(id, w2.docs, dest_company)
        THEN Raise(w2, "no_journal", id)
        ELSE IF dest_invoice > MaxId THEN Raise(w2, "bound", id)
        ELSE IF built.missing THEN Raise(w3, "no_product", id)
        ELSE IF w5.err # "ok" THEN w5
        ELSE [w5 EXCEPT !.built = Append(@,
                 [src |-> id, dest_company |-> dest_company,
                  dest_invoice |-> dest_invoice,
                  reclaimed |-> IF reclaim THEN Max(inter_invoice) ELSE 0,
                  force_number |-> force_number,
                  name |-> dest_invoice_data.name,
                  env |-> env])]

\* PostLoop without the search for a posted mirror
PostLoop_no_posted_check(w, ids, k, taxes) ==
    IF w.err # "ok" \/ k > Len(ids) THEN w
    ELSE LET src_invoice == ids[k]
             dest_company ==
                 _find_company_from_invoice_partner(w.docs, src_invoice)
             env == [uid |-> "caller", su |-> TRUE]
         IN  IF w.docs[src_invoice].move_type \notin supported_types
             THEN PostLoop(w, ids, k + 1, taxes)
             ELSE IF dest_company = "none" \/ w.docs[src_invoice].auto_generated
             THEN PostLoop(w, ids, k + 1, taxes)
             ELSE PostLoop(
                    _inter_company_create_invoice(
                        w, src_invoice, dest_company, env, taxes),
                    ids, k + 1, taxes)

\* PostLoop with the builder's error caught for each record, the loop going on
PostLoop_isolating(w, ids, k, taxes) ==
    IF w.err # "ok" \/ k > Len(ids) THEN w
    ELSE LET src_invoice == ids[k]
             dest_company ==
                 _find_company_from_invoice_partner(w.docs, src_invoice)
             inter_invoice ==
                 Search(w.docs, [auto_invoice_id |-> src_invoice,
                                 company_id |-> dest_company,
                                 state |-> "posted"])
             env == [uid |-> "caller", su |-> TRUE]
             w1 == _inter_company_create_invoice(
                       w, src_invoice, dest_company, env, taxes)
         IN  IF w.docs[src_invoice].move_type \notin supported_types
             THEN PostLoop(w, ids, k + 1, taxes)
             ELSE IF dest_company = "none" \/ w.docs[src_invoice].auto_generated
             THEN PostLoop(w, ids, k + 1, taxes)
             ELSE IF inter_invoice # {}
             THEN PostLoop(w, ids, k + 1, taxes)
             ELSE PostLoop(IF w1.err \in AbortErrors THEN w ELSE w1,
                           ids, k + 1, taxes)

\* PostLoop without the skip of the documents that are auto_generated
PostLoop_remirrors(w, ids, k, taxes) ==
    IF w.err # "ok" \/ k > Len(ids) THEN w
    ELSE LET src_invoice == ids[k]
             dest_company ==
                 _find_company_from_invoice_partner(w.docs, src_invoice)
             inter_invoice ==
                 Search(w.docs, [auto_invoice_id |-> src_invoice,
                                 company_id |-> dest_company,
                                 state |-> "posted"])
             env == [uid |-> "caller", su |-> TRUE]
         IN  IF w.docs[src_invoice].move_type \notin supported_types
             THEN PostLoop(w, ids, k + 1, taxes)
             ELSE IF dest_company = "none"
             THEN PostLoop(w, ids, k + 1, taxes)
             ELSE IF inter_invoice # {}
             THEN PostLoop(w, ids, k + 1, taxes)
             ELSE PostLoop(
                    _inter_company_create_invoice(
                        w, src_invoice, dest_company, env, taxes),
                    ids, k + 1, taxes)

\* the body of the loop of action_post, from its k-th record on
PostLoop(w, ids, k, taxes) ==
    IF w.err # "ok" \/ k > Len(ids) THEN w
    ELSE LET src_invoice == ids[k]
             dest_company ==
                 _find_company_from_invoice_partner(w.docs, src_invoice)
             inter_invoice ==
                 Search(w.docs, [auto_invoice_id |-> src_invoice,
                                 company_id |-> dest_company,
                                 state |-> "posted"])
             intercompany_user ==
                 cfg.company[dest_company].intercompany_invoice_user_id
             env == IF intercompany_user
                    THEN [uid |-> "intercompany_user", su |-> TRUE]
                    ELSE [uid |-> "caller", su |-> TRUE]
         IN  IF w.docs[src_invoice].move_type \notin supported_types
             THEN PostLoop(w, ids, k + 1, taxes)
             ELSE IF dest_company = "none" \/ w.docs[src_invoice].auto_generated
             THEN PostLoop(w, ids, k + 1, taxes)
             ELSE IF inter_invoice # {}
             THEN PostLoop(w, ids, k + 1, taxes)
             ELSE PostLoop(
                    _inter_company_create_invoice(
                        w, src_invoice, dest_company, env, taxes),
                    ids, k + 1, taxes)

\* AccountMove.action_post
action_post(w, ids, skip, taxes) ==
    PostLoop(super_action_post(w, ids, skip), ids, 1, taxes)

\* ------------------------------------------------------------ environment
Companies == {"A", "B"}
TaxOutcomes == {<<0, 0>>, <<100, 0>>, <<4, 4>>, <<100, 100>>}
SourceAmounts == {<<1000, 1100>>, <<2000, 2200>>}
Narrations == {0, 1}

Line(display_type, product_id) ==
    [display_type |-> display_type, product_id |-> product_id,
     auto_invoice_line_id |-> 0]

\* what a source can be: <<move_type, partner_id, lines>>
Good == <<"out_invoice", "pB", <<Line(FALSE, "P")>>>>
SourceProfiles ==
    { Good,
      <<"out_invoice", "pB", <<Line(TRUE, "none"), Line(FALSE, "P")>>>>,
      <<"out_invoice", "pB", <<Line(FALSE, "P"), Line(FALSE, "none")>>>>,
      <<"out_invoice", "pB", <<Line(FALSE, "Q")>>>>,
      <<"in_refund", "pB", <<Line(FALSE, "P")>>>>,
      <<"out_invoice", "ext", <<Line(FALSE, "P")>>>>,
      <<"entry", "pB", <<Line(FALSE, "P")>>>> }

\* a document a user of company A entered, still a draft without a number
NewSource(move_type, partner_id, lines) ==
    [move_type |-> move_type,
     company_id |-> "A",
     partner_id |-> partner_id,
     state |-> "draft",
     auto_generated |-> FALSE,
     auto_invoice_id |-> 0,
     name |-> 0,
     ref |-> 0,
     amount_untaxed |-> 1000,
     amount_total |-> 1100,
     invoice_origin |-> <<>>,
     narration |-> 0,
     messages |-> <<>>,
     lines |-> lines]

\* the settings of company A, which enters the sources
CompanyA ==
    [invoice_auto_validation |-> FALSE, company_share_product |-> TRUE,
     intercompany_invoice_user_id |-> FALSE, journals |-> {"purchase", "sale"}]

NoVals == [nothing |-> 0]

\* what a request had created and deleted when it was rolled back: nothing
NoneUndone == [created |-> {}, deleted |-> {}]

\* The settings of company B.  company_share_product is read only to skip the
\* check of the products, so both values are tried only where a line carries
\* the private product.
Settings(p) ==
    {[invoice_auto_validation |-> av, company_share_product |-> sp,
      intercompany_invoice_user_id |-> iu, journals |-> {"purchase"}] :
        av \in BOOLEAN, iu \in BOOLEAN,
        sp \in IF \E k \in 1..Len(p[3]) : p[3][k].product_id = "Q"
               THEN BOOLEAN ELSE {FALSE}}

\* the documents of S entered as drafts, the first of any profile
InitWith(S) ==
    /\ \E p \in SourceProfiles :
          /\ docs = [i \in S |->
                       IF i = 1 THEN NewSource(p[1], p[2], p[3])
                       ELSE NewSource(Good[1], Good[2], Good[3])]
          /\ \E b \in Settings(p) :
                cfg = [company |-> [c \in Companies |->
                                      IF c = "A" THEN CompanyA ELSE b],
                       currency_rounding |-> 1]
    /\ nextId = Max(Sources) + 1
    /\ last = [op |-> "init", ids |-> <<>>, vals |-> NoVals, err |-> "ok",
               ref |-> 0, built |-> <<>>, trace |-> <<>>,
               undone |-> NoneUndone]
    /\ ops = 0
    /\ pending = {}

Init == InitWith({1})

InitBatch == InitWith(Sources)

\* ------------------------------------------------------------- operations
\* the recordsets an operation can be called on: one document, or several
\* sources together
Recordsets(d) ==
    {<<i>> : i \in DOMAIN d}
    \cup {ids \in UNION {[1..n -> Sources \cap DOMAIN d] : n \in 2..MaxBatch} :
            \A a, b \in 1..Len(ids) : a # b => ids[a] # ids[b]}

\* The end of the request: commit, or roll back on an exception (the records
\* and, ids being only identities here, the id counter); last keeps which
\* records the request had created and deleted when it was rolled back.  A call that would
\* need more than MaxId documents is left out.
Finish(op, ids, vals, w) ==
    /\ w.err # "bound"
    /\ docs' = IF w.err = "ok" THEN w.docs ELSE docs
    /\ nextId' = IF w.err = "ok" THEN w.next ELSE nextId
    /\ last' = [op |-> op, ids |-> ids, vals |-> vals, err |-> w.err,
                ref |-> w.ref,
                built |-> IF w.err = "ok" THEN w.built ELSE <<>>,
                trace |-> IF w.err = "ok" THEN w.trace ELSE <<>>,
                undone |-> IF w.err = "ok" THEN NoneUndone
                           ELSE [created |-> DOMAIN w.docs \ DOMAIN docs,
                                 deleted |-> DOMAIN docs \ DOMAIN w.docs]]
    /\ UNCHANGED <<cfg, pending>>

Post(ids, taxes) ==
    Finish("post", ids, NoVals, action_post(Begin(docs, nextId), ids, FALSE, taxes))

Draft(ids) ==
    Finish("draft", ids, NoVals, button_draft(Begin(docs, nextId), ids, FALSE))

Cancel(ids) ==
    Finish("cancel", ids, NoVals, button_cancel(Begin(docs, nextId), ids, FALSE))

\* what a user writes on a document: on a draft, the lines, which changes the
\* totals; on a mirror, the narration
UserVals(rec) ==
    (IF rec.auto_invoice_id # 0
     THEN {[narration |-> n] : n \in Narrations} ELSE {})
    \cup (IF rec.state = "draft"
          THEN {[amount_untaxed |-> a[1], amount_total |-> a[2]] :
                    a \in SourceAmounts}
          ELSE {})

Write(id, vals) ==
    Finish("write", <<id>>, vals, write(Begin(docs, nextId), <<id>>, vals, FALSE))

\* the records of ids whose posting can reach the mirror builder
Eligible(d, ids) ==
    {i \in Range(ids) : /\ d[i].move_type \in supported_types
                         /\ ~d[i].auto_generated
                         /\ d[i].state = "draft"
                         /\ _find_company_from_invoice_partner(d, i) # "none"}

PostAny ==
    \E ids \in Recordsets(docs) :
        \E taxes \in [Eligible(docs, ids) -> TaxOutcomes] : Post(ids, taxes)

DraftAny == \E ids \in Recordsets(docs) : Draft(ids)

CancelAny == \E ids \in Recordsets(docs) : Cancel(ids)

WriteAny ==
    \E id \in DOMAIN docs : \E vals \in UserVals(docs[id]) : Write(id, vals)

\* one source and its mirrors, any number of operations
Next ==
    \/ PostAny /\ UNCHANGED ops
    \/ DraftAny /\ UNCHANGED ops
    \/ CancelAny /\ UNCHANGED ops
    \/ WriteAny /\ UNCHANGED ops

Spec == Init /\ [][Next]_vars

Unlink(id) ==
    Finish("unlink", <<id>>, NoVals, user_unlink(Begin(docs, nextId), {id}))

UnlinkAny == \E id \in DOMAIN docs : Unlink(id)

\* one source and its mirrors, with the documents deleted by their users
NextUnlink ==
    \/ PostAny /\ UNCHANGED ops
    \/ DraftAny /\ UNCHANGED ops
    \/ CancelAny /\ UNCHANGED ops
    \/ WriteAny /\ UNCHANGED ops
    \/ UnlinkAny /\ UNCHANGED ops

SpecUnlink == Init /\ [][NextUnlink]_vars

\* the move types of account.move; the mapping is defined on four of them
MoveTypes ==
    supported_types \cup {"entry", "out_receipt", "in_receipt"}

\* one document of any move type
InitTypes ==
    /\ \E t \in MoveTypes : docs = [i \in {1} |-> NewSource(t, "pB", Good[3])]
    /\ cfg = [company |-> [c \in Companies |-> CompanyA],
              currency_rounding |-> 1]
    /\ nextId = 2
    /\ last = [op |-> "init", ids |-> <<>>, vals |-> NoVals, err |-> "ok",
               ref |-> 0, built |-> <<>>, trace |-> <<>>,
               undone |-> NoneUndone]
    /\ ops = 0
    /\ pending = {}

\* the values _prepare_invoice_data gives for a document and a company, kept as
\* a document: its move type is the mapping of the document's
PrepareAny ==
    /\ nextId <= MaxId
    /\ \E id \in DOMAIN docs : \E dest_company \in Companies :
          /\ docs' = (nextId :> _prepare_invoice_data(docs, id, dest_company))
                         @@ docs
          /\ last' = [last EXCEPT !.op = "prepare", !.ids = <<id>>]
    /\ nextId' = nextId + 1
    /\ UNCHANGED <<cfg, ops, pending>>

\* the move-type mapping applied to every move type, and to its own results
SpecTypes == InitTypes /\ [][PrepareAny]_vars

\* -------------------------------------------- sources and settings edited
\* the lines a user gives a draft source: with a product every company reads,
\* with a line without product, with a product private to company A
SourceLines ==
    {<<Line(FALSE, "P")>>,
     <<Line(FALSE, "P"), Line(FALSE, "none")>>,
     <<Line(FALSE, "Q")>>}

\* a write of the invoice lines of a draft document that is no mirror
EditLinesAny ==
    \E id \in DOMAIN docs : \E lines \in SourceLines :
        /\ docs[id].state = "draft" /\ docs[id].auto_invoice_id = 0
        /\ lines # docs[id].lines
        /\ Write(id, [lines |-> lines])

\* the journals of company B changed by its accountant: the purchase journal
\* removed, or created again
SetJournalsAny ==
    /\ \E js \in {{}, {"purchase"}} :
          /\ js # cfg.company["B"].journals
          /\ cfg' = [cfg EXCEPT !.company["B"].journals = js]
    /\ last' = [op |-> "journals", ids |-> <<>>, vals |-> NoVals, err |-> "ok",
                ref |-> 0, built |-> <<>>, trace |-> <<>>,
                undone |-> NoneUndone]
    /\ UNCHANGED <<docs, nextId, pending>>

\* one source posted, reset, cancelled and posted again while its lines and the
\* destination's journals change in between
NextEdit ==
    \/ PostAny /\ UNCHANGED ops
    \/ DraftAny /\ UNCHANGED ops
    \/ CancelAny /\ UNCHANGED ops
    \/ EditLinesAny /\ UNCHANGED ops
    \/ SetJournalsAny /\ UNCHANGED ops

SpecEdit == Init /\ [][NextEdit]_vars

\* ------------------------------------------------- requests run together
\* A request reads the records as they were committed when it began, and its
\* changes are seen by the others once it commits.  The code takes no lock and
\* checks nothing again at the end of action_post.

\* the committed records cur after the commit of a request that began on the
\* records base and left them as mine
Merge(cur, base, mine) ==
    LET created == DOMAIN mine \ DOMAIN base
        deleted == DOMAIN base \ DOMAIN mine
        changed == {i \in DOMAIN mine \cap DOMAIN base : mine[i] # base[i]}
    IN  [i \in (DOMAIN cur \ deleted) \cup created |->
            IF i \in created \cup changed THEN mine[i] ELSE cur[i]]

\* action_post of one source runs to its end on the records committed so far;
\* the ids it drew from the sequence are not given again
PostBegin(id, taxes) ==
    LET w == action_post(Begin(docs, nextId), <<id>>, FALSE, taxes)
    IN  /\ Cardinality(pending) < MaxPending
        /\ \A t \in pending : t.ids # <<id>> \/ t.base = docs
        /\ w.err = "ok"
        /\ pending' = pending \cup
               {[ids |-> <<id>>, base |-> docs, docs |-> w.docs,
                 built |-> w.built, trace |-> w.trace]}
        /\ nextId' = w.next
        /\ last' = [op |-> "begin", ids |-> <<id>>, vals |-> NoVals,
                    err |-> "ok", ref |-> 0, built |-> <<>>, trace |-> <<>>,
                    undone |-> NoneUndone]
        /\ UNCHANGED <<docs, cfg>>

PostBeginAny ==
    \E id \in DOMAIN docs :
        /\ Eligible(docs, <<id>>) = {id}
        /\ \E taxes \in [{id} -> TaxOutcomes] : PostBegin(id, taxes)

\* the commit of a request
Commit(t) ==
    /\ docs' = Merge(docs, t.base, t.docs)
    /\ pending' = pending \ {t}
    /\ last' = [op |-> "commit", ids |-> t.ids, vals |-> NoVals, err |-> "ok",
                ref |-> 0, built |-> t.built, trace |-> t.trace,
                undone |-> NoneUndone]
    /\ UNCHANGED <<nextId, cfg>>

CommitAny == \E t \in pending : Commit(t)

\* one source posted by requests that run together, then reset and posted
\* again by requests that run alone
NextRace ==
    \/ PostBeginAny /\ UNCHANGED ops
    \/ CommitAny /\ UNCHANGED ops
    \/ PostAny /\ UNCHANGED ops
    \/ DraftAny /\ UNCHANGED ops

SpecRace == Init /\ [][NextRace]_vars

\* one more operation counted, while the bound allows
Counted == ops < MaxOps /\ ops' = ops + 1

\* two sources, posted, reset and cancelled alone or together, a bounded number
\* of operations
NextBatch ==
    \/ PostAny /\ Counted
    \/ DraftAny /\ Counted
    \/ CancelAny /\ Counted
    \/ WriteAny /\ Counted

SpecBatch == InitBatch /\ [][NextBatch]_vars

\* ================================================================= claims
Mirrors(s, b) ==
    {m \in DOMAIN docs : docs[m].auto_invoice_id = s /\ docs[m].company_id = b}

\* the mirrors the last operation built, as <<source, mirror, entry>> facts
LastBuilt == {last.built[k] : k \in 1..Len(last.built)}

TotalsDiffer(b) ==
    float_compare_digits(docs[b.src].amount_total,
        docs[b.dest_invoice].amount_total, AccountPrecision) # 0

\* C1: in every reachable state, for every source S and destination company B
\* at most one document has auto_invoice_id = S, company_id = B and state
\* posted.
C1_AtMostOnePostedMirror ==
    \A s \in DOMAIN docs : \A b \in Companies :
        Cardinality({m \in Mirrors(s, b) : docs[m].state = "posted"}) <= 1

\* C1 witness: a source is posted again while its mirror is posted, and the
\* post builds nothing.
C1_Witness ==
    /\ last.op = "post" /\ last.err = "ok" /\ last.ids = <<1>>
    /\ last.built = <<>>
    /\ \E m \in Mirrors(1, "B") : docs[m].state = "posted"

\* C2: after every post that completes, each mirror the builder built is
\* posted if and only if the source's and the mirror's amount_total are equal
\* at the "Account" precision and the destination company has
\* invoice_auto_validation.
C2_PostedIffEqualAndAutoValidation ==
    (last.op = "post" /\ last.err = "ok") =>
        \A b \in LastBuilt :
            (docs[b.dest_invoice].state = "posted")
            <=> (/\ ~TotalsDiffer(b)
                 /\ cfg.company[b.dest_company].invoice_auto_validation)

\* C2 witness: the builder posted a mirror whose total equals the source's only
\* at the precision.
C2_Witness ==
    /\ last.op = "post" /\ last.err = "ok"
    /\ \E b \in LastBuilt :
          /\ docs[b.dest_invoice].state = "posted"
          /\ docs[b.dest_invoice].amount_total # docs[b.src].amount_total

\* C3 as claimed: whenever the builder completes without posting the mirror,
\* the mirror is a draft and carries the warning with both totals.
C3_Original ==
    (last.op = "post" /\ last.err = "ok") =>
        \A b \in LastBuilt :
            docs[b.dest_invoice].state # "posted" =>
                /\ docs[b.dest_invoice].state = "draft"
                /\ docs[b.dest_invoice].messages =
                       <<WarningBody(docs[b.src], docs[b.dest_invoice])>>

\* C3 amended: whenever the builder completes without posting the mirror, the
\* mirror is a draft; it carries the warning with both totals if the totals
\* differ at the precision, and no warning if they are equal (auto-validation
\* disabled).
C3_DraftAndWarningIffTotalsDiffer ==
    (last.op = "post" /\ last.err = "ok") =>
        \A b \in LastBuilt :
            docs[b.dest_invoice].state # "posted" =>
                /\ docs[b.dest_invoice].state = "draft"
                /\ docs[b.dest_invoice].messages =
                       IF TotalsDiffer(b)
                       THEN <<WarningBody(docs[b.src], docs[b.dest_invoice])>>
                       ELSE <<>>

\* C3 witness: a mirror left a draft with the warning, under auto-validation.
C3_Witness ==
    /\ last.op = "post" /\ last.err = "ok"
    /\ \E b \in LastBuilt :
          /\ docs[b.dest_invoice].state = "draft"
          /\ cfg.company[b.dest_company].invoice_auto_validation
          /\ Len(docs[b.dest_invoice].messages) = 1
          /\ docs[b.dest_invoice].messages[1].dest_amount_total
                 # docs[b.dest_invoice].messages[1].amount_total

\* the documents that reference s, as the state before the step has them
PostedMirrorsOf(s) ==
    {m \in DOMAIN docs : docs[m].auto_invoice_id = s /\ docs[m].state = "posted"}

\* in the trace tr, mirror m was set to draft, then its origin note written,
\* then set to cancel
DraftOriginCancel(tr, m) ==
    \E i, j, k \in 1..Len(tr) :
        /\ i < j /\ j < k
        /\ tr[i] = [id |-> m, ev |-> "draft"]
        /\ tr[j] = [id |-> m, ev |-> "origin"]
        /\ tr[k] = [id |-> m, ev |-> "cancel"]

\* C4 as claimed: cancelling a source that is not auto-generated, whose partner
\* is a managed company and that has a posted mirror always succeeds: the
\* mirror goes to draft, gets the origin note "<source company> - Canceled
\* Invoice: <source number>", then goes to cancel, and the source ends
\* cancelled.
C4_Original ==
    [][\A s \in DOMAIN docs :
          (/\ last'.op = "cancel" /\ last'.ids = <<s>>
           /\ ~docs[s].auto_generated
           /\ _find_company_from_invoice_partner(docs, s) # "none"
           /\ PostedMirrorsOf(s) # {})
          => /\ last'.err = "ok"
             /\ docs'[s].state = "cancel"
             /\ \A m \in PostedMirrorsOf(s) :
                   /\ docs'[m].state = "cancel"
                   /\ docs'[m].invoice_origin = CanceledOrigin(docs, s)
                   /\ DraftOriginCancel(last'.trace, m)]_vars

\* C5: button_draft on a recordset is rejected, with an error naming a posted
\* mirror of one of its documents, whenever a posted mirror references any
\* document of the recordset, and then no document changes; when no document of
\* the recordset has a posted mirror this guard does not reject the reset.
C5_ResetGuard ==
    [][last'.op = "draft" =>
          LET ids == last'.ids
              hit == \E k \in 1..Len(ids) : PostedMirrorsOf(ids[k]) # {}
          IN  /\ hit => /\ last'.err = "reset_guard"
                        /\ \E k \in 1..Len(ids) :
                              last'.ref \in PostedMirrorsOf(ids[k])
                        /\ docs' = docs
              /\ ~hit => last'.err # "reset_guard"]_vars

\* C5 witness: a reset of two documents rejected for the posted mirror of the
\* second.
C5_Witness ==
    /\ last.op = "draft" /\ last.err = "reset_guard" /\ Len(last.ids) = 2
    /\ docs[last.ref].state = "posted"
    /\ docs[last.ref].auto_invoice_id = last.ids[2]

\* C6: a write on a mirror, without the builder's flag, after which the
\* mirror's amount_untaxed differs from its source's at the currency's rounding
\* is rejected with an error naming the source, and no field changes.
C6_DivergingWriteRejected ==
    [][(/\ last'.op = "write"
        /\ docs[last'.ids[1]].auto_invoice_id # 0
        /\ float_compare_rounding(
               Update(docs[last'.ids[1]], last'.vals).amount_untaxed,
               docs[docs[last'.ids[1]].auto_invoice_id].amount_untaxed,
               cfg.currency_rounding) # 0)
       => /\ last'.err = "amount_guard"
          /\ last'.ref = docs[last'.ids[1]].auto_invoice_id
          /\ docs' = docs]_vars

\* C6 witness: a write of new totals on a mirror whose totals matched the
\* source's was rejected.
C6_Witness ==
    /\ last.op = "write" /\ last.err = "amount_guard"
    /\ "amount_untaxed" \in DOMAIN last.vals
    /\ docs[last.ids[1]].amount_untaxed = docs[last.ref].amount_untaxed

\* C7 as claimed: a write on a mirror that changes only fields that do not
\* affect its totals (the narration) is never rejected by the guard.
C7_Original ==
    (/\ last.op = "write"
     /\ DOMAIN last.vals = {"narration"}
     /\ docs[last.ids[1]].auto_invoice_id # 0)
    => last.err # "amount_guard"

\* posting document id reaches the builder, and the builder aborts
AbortsAlone(id) ==
    LET dest_company == _find_company_from_invoice_partner(docs, id)
    IN  /\ id \in Eligible(docs, <<id>>)
        /\ \A m \in PostedMirrorsOf(id) : docs[m].company_id # dest_company
        /\ _inter_company_create_invoice(
               super_action_post(Begin(docs, nextId), <<id>>, FALSE),
               id, dest_company, [uid |-> "caller", su |-> TRUE], <<>>).err
             \in AbortErrors

HasLineWithoutProduct(lines) ==
    \E k \in 1..Len(lines) :
        ~lines[k].display_type /\ lines[k].product_id = "none"

\* C9: if a line of the source that is no section or note has no product, a
\* post that reaches the builder fails with an error and, once it has ended,
\* no document or line it created exists.
C9_NoProductNoPartialMirror ==
    [][\A s \in DOMAIN docs :
          (/\ last'.op = "post" /\ last'.ids = <<s>>
           /\ s \in Eligible(docs, <<s>>)
           /\ {m \in PostedMirrorsOf(s) : docs[m].company_id =
                   _find_company_from_invoice_partner(docs, s)} = {}
           /\ HasLineWithoutProduct(docs[s].lines))
          => /\ last'.err \in AbortErrors
             /\ docs' = docs]_vars

\* C9 witness: a post failed on a line without a product.
C9_Witness ==
    /\ last.op = "post" /\ last.err = "no_product"
    /\ HasLineWithoutProduct(docs[last.ref].lines)
    /\ \A m \in DOMAIN docs : docs[m].auto_invoice_id = 0

\* C10: when the builder runs for source S and company B while a mirror of S
\* in B is a draft or cancelled with name X, that mirror is deleted and the new
\* mirror is created with name X, and keeps it when X is a number.
C10_NumberReused ==
    [][(last'.op = "post" /\ last'.err = "ok") =>
          \A k \in 1..Len(last'.built) :
              LET b == last'.built[k]
              IN  \A m \in DOMAIN docs :
                      (/\ docs[m].auto_invoice_id = b.src
                       /\ docs[m].company_id = b.dest_company
                       /\ docs[m].state \in {"draft", "cancel"})
                      => /\ m \notin DOMAIN docs'
                         /\ b.name = docs[m].name
                         /\ docs[m].name # 0 =>
                                docs'[b.dest_invoice].name = docs[m].name]_vars

\* C10 witness: after post, cancel, reset and post again, the rebuilt and
\* posted mirror carries the number of the mirror it replaced.
C10_Witness ==
    /\ last.op = "post" /\ last.err = "ok"
    /\ \E b \in LastBuilt :
          /\ b.reclaimed # 0
          /\ b.reclaimed \notin DOMAIN docs
          /\ docs[b.dest_invoice].name = b.reclaimed
          /\ docs[b.dest_invoice].state = "posted"

\* C11: posting a document that is auto_generated never runs the mirror
\* builder, the nested post of an auto-validated mirror included: no document's
\* auto_invoice_id refers to an auto_generated document, the builder runs only
\* for documents that are not auto_generated, and one post of one source
\* creates at most one document.
C11_NoMirrorOfMirror ==
    /\ [](\A m \in DOMAIN docs :
            docs[m].auto_invoice_id # 0 =>
                /\ docs[m].auto_invoice_id \in DOMAIN docs
                /\ ~docs[docs[m].auto_invoice_id].auto_generated)
    /\ [][last'.op = "post" =>
            /\ \A k \in 1..Len(last'.built) :
                  ~docs[last'.built[k].src].auto_generated
            /\ (\E k \in 1..Len(last'.ids) :
                    docs[last'.ids[k]].auto_generated) =>
                  (Len(last'.ids) = 1 => DOMAIN docs' = DOMAIN docs)
            /\ Len(last'.ids) = 1 =>
                  Cardinality(DOMAIN docs' \ DOMAIN docs) <= 1]_vars

\* C11 witness: a draft mirror was posted by hand and nothing was built.
C11_Witness ==
    /\ last.op = "post" /\ last.err = "ok" /\ Len(last.ids) = 1
    /\ docs[last.ids[1]].auto_generated
    /\ docs[last.ids[1]].state = "posted"
    /\ last.built = <<>>

\* C12: posting a source while a posted mirror of it exists in the destination
\* company its partner resolves to builds nothing: no document is created or
\* deleted, and every document but the source, the posted mirror with its
\* number, state and lines included, is left as it was.
C12_PostedMirrorUntouched ==
    [][\A s \in DOMAIN docs :
          (/\ last'.op = "post" /\ last'.ids = <<s>>
           /\ ~docs[s].auto_generated
           /\ {m \in PostedMirrorsOf(s) : docs[m].company_id =
                   _find_company_from_invoice_partner(docs, s)} # {})
          => /\ last'.built = <<>>
             /\ DOMAIN docs' = DOMAIN docs
             /\ \A m \in DOMAIN docs : m # s => docs'[m] = docs[m]]_vars

\* C12 witness: a source reset to draft, whose mirror was then posted by hand,
\* is posted again: the source is posted and its one mirror is the posted one.
C12_Witness ==
    /\ last.op = "post" /\ last.err = "ok" /\ Len(last.ids) = 1
    /\ ~docs[last.ids[1]].auto_generated
    /\ docs[last.ids[1]].state = "posted"
    /\ last.built = <<>>
    /\ \E m \in DOMAIN docs :
          /\ docs[m].auto_invoice_id = last.ids[1]
          /\ docs[m].state = "posted"
          /\ docs[m].name = m
          /\ ~cfg.company[docs[m].company_id].invoice_auto_validation

\* the mirror m carries the warning note of the builder
HasWarning(m) ==
    \E k \in 1..Len(docs[m].messages) :
        docs[m].messages[k].dest_amount_total # docs[m].messages[k].amount_total

\* the mirror's amount_untaxed equals its source's, as the write guard compares
UntaxedEqual(m) ==
    float_compare_rounding(docs[m].amount_untaxed,
        docs[docs[m].auto_invoice_id].amount_untaxed,
        cfg.currency_rounding) = 0

\* C13 as claimed: in every reachable state, every posted mirror has
\* amount_untaxed equal to its source's amount_untaxed, or else carries the
\* mismatch warning note.
C13_Original ==
    \A m \in DOMAIN docs :
        (docs[m].auto_invoice_id # 0 /\ docs[m].state = "posted")
        => (UntaxedEqual(m) \/ HasWarning(m))

\* C14: in every reachable state a document is auto_generated only if its
\* auto_invoice_id is set, and every auto_invoice_id that is set refers to a
\* document that exists; so it is after the builder deleted and recreated a
\* mirror, after a cascade cancel and after a user deleted a document.
C14_ReferentialIntegrity ==
    \A m \in DOMAIN docs :
        /\ docs[m].auto_generated => docs[m].auto_invoice_id # 0
        /\ docs[m].auto_invoice_id # 0 => docs[m].auto_invoice_id \in DOMAIN docs

\* C14 witness: the builder deleted a mirror that had a number and created
\* another, which refers to the source.
C14_Witness ==
    /\ last.op = "post" /\ last.err = "ok"
    /\ \E b \in LastBuilt :
          /\ b.reclaimed # 0
          /\ b.reclaimed \notin DOMAIN docs
          /\ b.force_number # 0
          /\ docs[b.dest_invoice].auto_generated
          /\ docs[b.dest_invoice].auto_invoice_id = b.src
          /\ b.src \in DOMAIN docs

\* C15: the move-type mapping is an involution on the four supported types:
\* the values prepared from a document of a supported type have a supported
\* type, and the mapping of that type is the document's type again.
C15_TypeMapInvolution ==
    \A m \in DOMAIN docs :
        (/\ docs[m].auto_invoice_id # 0
         /\ docs[docs[m].auto_invoice_id].move_type \in supported_types)
        => /\ docs[m].move_type \in supported_types
           /\ docs[m].move_type # docs[docs[m].auto_invoice_id].move_type
           /\ _get_destination_invoice_type(docs[m].move_type)
                  = docs[docs[m].auto_invoice_id].move_type

\* C15 witness: a vendor refund mapped to a customer refund, and that one
\* mapped back to a vendor refund.
C15_Witness ==
    \E m, s \in DOMAIN docs :
        /\ docs[m].auto_invoice_id = s
        /\ docs[s].auto_invoice_id # 0
        /\ docs[docs[s].auto_invoice_id].move_type = "in_refund"
        /\ docs[s].move_type = "out_refund"
        /\ docs[m].move_type = "in_refund"

NonPostedMirrors(d, s, b) ==
    {m \in DOMAIN d : /\ d[m].auto_invoice_id = s /\ d[m].company_id = b
                      /\ d[m].state # "posted"}

\* two requests posted the source together and each committed a mirror of it
\* in the same company
Raced(s, b) ==
    /\ pending = {}
    /\ Cardinality(Mirrors(s, b)) = 2

\* C16 as claimed: when two posts of a source that ran together have each
\* created a mirror in the same company, the next run of the builder for that
\* source completes and leaves at most one mirror of the pair that is not
\* posted; and once a mirror of the pair is posted, a post of the source
\* creates no mirror.
C16_Original ==
    [][\A s \in DOMAIN docs :
          LET b == _find_company_from_invoice_partner(docs, s)
          IN  (/\ last'.op = "post" /\ last'.ids = <<s>>
               /\ Raced(s, b)
               /\ Eligible(docs, <<s>>) = {s})
              => IF \E m \in Mirrors(s, b) : docs[m].state = "posted"
                 THEN last'.built = <<>> /\ DOMAIN docs' = DOMAIN docs
                 ELSE /\ last'.err = "ok"
                      /\ Cardinality(NonPostedMirrors(docs', s, b)) <= 1]_vars

\* C17 as claimed: the builder runs with access checks bypassed only when the
\* destination company has no intercompany_invoice_user_id; when it has one,
\* the builder runs as that user and without the bypass.
C17_Original ==
    \A b \in LastBuilt :
        IF cfg.company[b.dest_company].intercompany_invoice_user_id
        THEN b.env.uid = "intercompany_user" /\ ~b.env.su
        ELSE b.env.uid = "caller" /\ b.env.su

\* the error the builder ends with when document id is posted alone ("ok":
\* none, also when the builder is not reached)
BuilderError(id) ==
    LET dest_company == _find_company_from_invoice_partner(docs, id)
    IN  IF /\ id \in Eligible(docs, <<id>>)
           /\ \A m \in PostedMirrorsOf(id) : docs[m].company_id # dest_company
        THEN _inter_company_create_invoice(
                 super_action_post(Begin(docs, nextId), <<id>>, FALSE),
                 id, dest_company, [uid |-> "caller", su |-> TRUE], <<>>).err
        ELSE "ok"

\* C18: when the builder aborts for a missing journal or a line without
\* product, after its reclamation step, the post fails with that error and
\* leaves everything as it was: the source is a draft, no document was added
\* and the draft or cancelled mirror that was there is there with its number;
\* when it aborts on the product check, the request had neither created nor
\* deleted anything when it was rolled back.
C18_AtomicAbort ==
    [][\A s \in DOMAIN docs :
          (/\ last'.op = "post" /\ last'.ids = <<s>>
           /\ BuilderError(s) \in AbortErrors)
          => /\ last'.err = BuilderError(s)
             /\ DOMAIN docs' = DOMAIN docs
             /\ docs'[s].state = "draft"
             /\ \A m \in DOMAIN docs :
                   docs[m].auto_invoice_id = s => docs'[m] = docs[m]
             /\ BuilderError(s) = "product_not_multicompany"
                   => last'.undone = NoneUndone]_vars

\* C18 witness: a post failed on a line without product after the builder had
\* deleted the cancelled or draft mirror, which is there with its number.
C18_Witness ==
    /\ last.op = "post" /\ last.err = "no_product"
    /\ last.undone.created # {}
    /\ \E m \in last.undone.deleted :
          /\ m \in DOMAIN docs
          /\ docs[m].auto_invoice_id = last.ids[1]
          /\ docs[m].name # 0
          /\ docs[m].state \in {"draft", "cancel"}
    /\ docs[last.ids[1]].state = "draft"

\* C19: when the operations run one after the other, every source has at most
\* one mirror in a company, whatever its state; a build for a pair that has a
\* mirror deletes that mirror, and no build runs for a pair whose mirror is
\* posted.
C19_AtMostOneMirror ==
    /\ [](\A s \in DOMAIN docs : \A b \in Companies :
            Cardinality(Mirrors(s, b)) <= 1)
    /\ [][\A k \in 1..Len(last'.built) :
            LET e == last'.built[k]
            IN  \A m \in Mirrors(e.src, e.dest_company) :
                    /\ docs[m].state # "posted"
                    /\ e.reclaimed = m
                    /\ m \notin DOMAIN docs']_vars

\* C19 witness: a build replaced a mirror that never had a number, and the new
\* mirror is the only one of the pair.
C19_Witness ==
    /\ last.op = "post" /\ last.err = "ok"
    /\ \E e \in LastBuilt :
          /\ e.reclaimed # 0
          /\ e.force_number = 0
          /\ Mirrors(e.src, e.dest_company) = {e.dest_invoice}

\* the documents that refer to s whose amount_untaxed differs from s's
DivergingMirrorsOf(s) ==
    {m \in DOMAIN docs : docs[m].auto_invoice_id = s /\ ~UntaxedEqual(m)}

\* C20: the writes of the cascade cancel are not exempt from the amount guard.
\* When a source that is cancelled has a mirror whose amount_untaxed differs
\* from its own, the cancel is rejected with the guard's error naming the
\* source and no document changes; when every mirror's amount_untaxed equals
\* the source's, the guard does not block the cascade: the source and its
\* mirrors end cancelled, with the origin note written.
C20_CascadeUnderGuard ==
    [][\A s \in DOMAIN docs :
          (/\ last'.op = "cancel" /\ last'.ids = <<s>>
           /\ ~docs[s].auto_generated
           /\ _find_company_from_invoice_partner(docs, s) # "none"
           /\ \E m \in DOMAIN docs : docs[m].auto_invoice_id = s)
          => IF DivergingMirrorsOf(s) # {}
             THEN /\ last'.err = "amount_guard"
                  /\ last'.ref = s
                  /\ docs' = docs
             ELSE /\ last'.err = "ok"
                  /\ docs'[s].state = "cancel"
                  /\ \A m \in DOMAIN docs :
                        docs[m].auto_invoice_id = s =>
                            /\ docs'[m].state = "cancel"
                            /\ docs'[m].invoice_origin = CanceledOrigin(docs, s)
                            /\ DraftOriginCancel(last'.trace, m)]_vars

\* C20 witness: the cancel of a posted source was rejected for its posted
\* mirror, whose amount_untaxed differs; both are still posted.
C20_Witness ==
    /\ last.op = "cancel" /\ last.err = "amount_guard"
    /\ docs[last.ids[1]].auto_invoice_id = 0
    /\ docs[last.ids[1]].state = "posted"
    /\ \E m \in DivergingMirrorsOf(last.ids[1]) : docs[m].state = "posted"

====
